---- MODULE Spec2Model ----
(***************************************************************************)
(* A model of gpx_per_day.py: one large GPX tracklog is read point by      *)
(* point, points without a <time> child or inside a privacy zone are       *)
(* skipped, the remaining points are cut into tracks by should_separate,   *)
(* and every track is written to a file whose name get_unique_path picks.  *)
(*                                                                         *)
(* Representation.                                                         *)
(*   - an XML element is a record [tag, text]; a trkpt is a record         *)
(*     [tag, lat, lon, children] whose children are elements in document   *)
(*     order.  A tag of the input document is namespace-qualified          *)
(*     ("{gpx}ele"); a tag rewritten by remove_trkpt_namespaces is local   *)
(*     ("ele").                                                            *)
(*   - the text of a <time> element is the tuple of the numbers written    *)
(*     in it, <<Y, m, d, H, M, S>>; a text of any other shape does not     *)
(*     match '%Y-%m-%dT%H:%M:%SZ'.                                         *)
(*   - a datetime is [day, sec]: days since 1970-01-01 and the second of   *)
(*     the day; strptime and strftime convert between it and the civil     *)
(*     calendar.                                                           *)
(*   - None is the empty sequence and an object reference that may be      *)
(*     None is a sequence of length at most one.                           *)
(*   - lat is measured in metres along one meridian (lon is the same for   *)
(*     all points), where the great-circle distance of two points is the   *)
(*     absolute difference of their lat.                                   *)
(***************************************************************************)
EXTENDS Integers, Sequences, FiniteSets, TLC

VARIABLES
    outfile_suffix,   \* main: args.suffix.strip()
    privacy_zones,    \* main: get_privacy_zones(args.privacy_zones)
    epoch_offset,     \* main: args.epoch_offset
    preexisting,      \* the paths that exist when the run starts (never changes)
    files,            \* the paths that exist now (Path.exists)
    doc,              \* the trkpts get_trkpts has yielded so far, in order
    prev_trkpt,       \* main: prev_trkpt (<<>> is None)
    current_track,    \* main: current_track (<<>> is None)
    written,          \* the write_bytes calls so far: [path, date, bytes]
    branch,           \* the path the last loop iteration took through the body
    pc,               \* "loop", "done" (main returned) or "error" (uncaught exception)
    error,            \* the exception that ended the run, "" when none
    subject,          \* the object a function is called on directly (a Track,
                      \* a datetime, the arguments of get_unique_path)
    results           \* the outcomes of those calls, in order

vars == <<outfile_suffix, privacy_zones, epoch_offset, preexisting, files, doc,
          prev_trkpt, current_track, written, branch, pc, error, subject, results>>

mainVars == <<outfile_suffix, privacy_zones, epoch_offset, preexisting, files, doc,
              prev_trkpt, current_track, written, branch, pc, error>>

----------------------------------------------------------------------------
(* Bounds *)

\* the longest document prefix the loop of main reads
MaxPts == 3

\* the longest document of the runs that vary the timestamps only
MaxScenarioPts == 5

\* the number of direct calls made on the Track under test
MaxCalls == 2

\* the most trkpts of the Track under test
MaxTrackPts == 2

----------------------------------------------------------------------------
(* Calendar: datetime.strptime, datetime + timedelta, strftime('%Y%m%d') *)

IsLeap(y) == (y % 4 = 0 /\ y % 100 # 0) \/ y % 400 = 0

DaysInMonth(y, m) ==
    IF m = 2 THEN (IF IsLeap(y) THEN 29 ELSE 28)
    ELSE IF m \in {4, 6, 9, 11} THEN 30 ELSE 31

\* the day of the year that starts on March 1, from the month and the day
DayOfMarchYear(m, d) == (153 * ((m + 9) % 12) + 2) \div 5 + d - 1

\* days from 0000-03-01 to day doy of the year yy that starts on March 1
DaysOfMarchYear(yy, doy) ==
    (yy \div 400) * 146097 + (yy % 400) * 365 + (yy % 400) \div 4
        - (yy % 400) \div 100 + doy

\* days from 1970-01-01 to the civil date y-m-d (proleptic Gregorian)
days_from_civil(y, m, d) ==
    DaysOfMarchYear(IF m <= 2 THEN y - 1 ELSE y, DayOfMarchYear(m, d)) - 719468

\* the year of its 400-year era that day doe of the era lies in
YearOfEra(doe) == (doe - doe \div 1460 + doe \div 36524 - doe \div 146096) \div 365

\* the day of its year (starting on March 1) of day doe of the era
DayOfYear(doe, yoe) == doe - (365 * yoe + yoe \div 4 - yoe \div 100)

\* the civil month of month mp of a year that starts on March 1
CivilMonth(mp) == IF mp < 10 THEN mp + 3 ELSE mp - 9

\* the civil date of day doy of year yoe (starting on March 1) of an era
CivilOfYearDay(era, yoe, doy) ==
    << yoe + era * 400 + (IF (5 * doy + 2) \div 153 >= 10 THEN 1 ELSE 0),
       CivilMonth((5 * doy + 2) \div 153),
       doy - (153 * ((5 * doy + 2) \div 153) + 2) \div 5 + 1 >>

\* the civil date of day doe of an era
CivilOfEraDay(era, doe) ==
    CivilOfYearDay(era, YearOfEra(doe), DayOfYear(doe, YearOfEra(doe)))

\* the civil date <<y, m, d>> of a day count from 1970-01-01
civil_from_days(z) ==
    CivilOfEraDay((z + 719468) \div 146097, (z + 719468) % 146097)

\* whether a text matches '%Y-%m-%dT%H:%M:%SZ'
MatchesFormat(text) ==
    /\ Len(text) = 6
    /\ text[1] \in 1..9999
    /\ text[2] \in 1..12
    /\ text[3] \in 1..DaysInMonth(text[1], text[2])
    /\ text[4] \in 0..23
    /\ text[5] \in 0..59
    /\ text[6] \in 0..59

\* datetime.strptime(text, '%Y-%m-%dT%H:%M:%SZ'), for a text that matches
strptime(text) ==
    [day |-> days_from_civil(text[1], text[2], text[3]),
     sec |-> text[4] * 3600 + text[5] * 60 + text[6]]

\* dt1 < dt2 on datetimes
DtLess(dt1, dt2) ==
    dt1.day < dt2.day \/ (dt1.day = dt2.day /\ dt1.sec < dt2.sec)

\* (dt2 - dt1).total_seconds()
DtDiff(dt2, dt1) == (dt2.day - dt1.day) * 86400 + (dt2.sec - dt1.sec)

\* the calendar date <<y, m, d>> of a datetime
DateOf(dt) == civil_from_days(dt.day)

Digits == <<"0", "1", "2", "3", "4", "5", "6", "7", "8", "9">>

RECURSIVE Dec(_)
\* the decimal numeral of a natural number, as str.format writes it
Dec(n) == IF n < 10 THEN Digits[n + 1] ELSE Dec(n \div 10) \o Digits[(n % 10) + 1]

\* a number zero-padded to two digits (%m, %d)
Pad2(n) == IF n < 10 THEN "0" \o Dec(n) ELSE Dec(n)

\* a year zero-padded to four digits (the year of str(datetime))
Pad4(n) ==
    IF n < 10 THEN "000" \o Dec(n)
    ELSE IF n < 100 THEN "00" \o Dec(n)
    ELSE IF n < 1000 THEN "0" \o Dec(n) ELSE Dec(n)

\* '%Y%m%d' of a civil date
FormatYmd(c) == Dec(c[1]) \o Pad2(c[2]) \o Pad2(c[3])

\* file_dt.strftime('%Y%m%d'); the C library writes %Y without padding, which
\* is four digits for the years 1000..9999
strftime_Ymd(dt) == FormatYmd(DateOf(dt))

\* 'YYYY-MM-DD HH:MM:SS' of a civil date and a second of the day
FormatIso(c, sec) ==
    Pad4(c[1]) \o "-" \o Pad2(c[2]) \o "-" \o Pad2(c[3]) \o " " \o
    Pad2(sec \div 3600) \o ":" \o Pad2((sec % 3600) \div 60) \o ":" \o Pad2(sec % 60)

\* str(datetime)
str_datetime(dt) == FormatIso(DateOf(dt), dt.sec)

\* offset_datetime with the epoch offset counted in days instead of weeks
offset_datetime_days(dt, epoch) == [day |-> dt.day + 1024 * epoch, sec |-> dt.sec]

\* offset_datetime: dt + timedelta(days=1024*7*epoch_offset)
offset_datetime(dt, epoch) == [day |-> dt.day + 1024 * 7 * epoch, sec |-> dt.sec]

----------------------------------------------------------------------------
(* Elements *)

\* the tag of a child of the input document, as 'gpx:<local>' resolves it
QTag(local) == "{gpx}" \o local

Elem(tag, text) == [tag |-> tag, text |-> text]

Trkpt(lat, children) == [tag |-> QTag("trkpt"), lat |-> lat, lon |-> 0, children |-> children]

RECURSIVE FindFrom(_, _, _)
\* the index of the first child at or after i whose tag is tag, 0 when there is none
FindFrom(children, tag, i) ==
    IF i > Len(children) THEN 0
    ELSE IF children[i].tag = tag THEN i
    ELSE FindFrom(children, tag, i + 1)

\* trkpt.find('gpx:<local>', namespaces): the index of the child, 0 for None
find(trkpt, local) == FindFrom(trkpt.children, QTag(local), 1)

\* trkpt_has_time
trkpt_has_time(trkpt) == find(trkpt, "time") # 0

\* the text of the element trkpt_datetime hands to strptime
TimeText(trkpt) == trkpt.children[find(trkpt, "time")].text

\* whether trkpt_datetime returns (strptime raises ValueError otherwise)
TimeParses(trkpt) == MatchesFormat(TimeText(trkpt))

\* trkpt_datetime
trkpt_datetime(trkpt) == strptime(TimeText(trkpt))

\* trkpt_to_point
trkpt_to_point(trkpt) == [latitude |-> trkpt.lat, longitude |-> trkpt.lon]

\* georgio.great_circle_distance(lon1, lat1, lon2, lat2), in metres, for two
\* points of the model's meridian
great_circle_distance(lon1, lat1, lon2, lat2) ==
    IF lat1 >= lat2 THEN lat1 - lat2 ELSE lat2 - lat1

----------------------------------------------------------------------------
(* Segmentation and privacy *)

\* timedelta(minutes=60), in seconds
TimeGapSeconds == 3600

\* the distance of should_separate, in metres
DistanceGapMeters == 1000

\* the distance should_separate computes from the two points
PointDistance(point1, point2) ==
    great_circle_distance(point1.longitude, point1.latitude,
                          point2.longitude, point2.latitude)

\* SeparateRules without the out-of-order rule
SeparateRulesNoGuard(time1, time2, distance) ==
    IF DtDiff(time2, time1) > TimeGapSeconds THEN TRUE
    ELSE IF distance > DistanceGapMeters THEN TRUE
    ELSE FALSE

\* SeparateRules with the distance compared by >=
SeparateRulesDistanceGe(time1, time2, distance) ==
    IF DtLess(time2, time1) THEN TRUE
    ELSE IF DtDiff(time2, time1) > TimeGapSeconds THEN TRUE
    ELSE IF distance >= DistanceGapMeters THEN TRUE
    ELSE FALSE

\* SeparateRules with the time difference compared by >=
SeparateRulesTimeGe(time1, time2, distance) ==
    IF DtLess(time2, time1) THEN TRUE
    ELSE IF DtDiff(time2, time1) >= TimeGapSeconds THEN TRUE
    ELSE IF distance > DistanceGapMeters THEN TRUE
    ELSE FALSE

\* the rules of should_separate, in the order of the code, on the two parsed
\* times and the distance
SeparateRules(time1, time2, distance) ==
    IF DtLess(time2, time1) THEN TRUE
    ELSE IF DtDiff(time2, time1) > TimeGapSeconds THEN TRUE
    ELSE IF distance > DistanceGapMeters THEN TRUE
    ELSE FALSE

\* should_separate, for two trkpts whose times parse
should_separate(trkpt1, trkpt2) ==
    SeparateRules(trkpt_datetime(trkpt1), trkpt_datetime(trkpt2),
                  PointDistance(trkpt_to_point(trkpt1), trkpt_to_point(trkpt2)))

PrivacyZone(name, radius_meters, lat) ==
    [name |-> name, radius_meters |-> radius_meters,
     point |-> [latitude |-> lat, longitude |-> 0]]

\* in_privacy_zone with the border left outside the zone
in_privacy_zone_strict(point, privacy_zone) ==
    great_circle_distance(point.longitude, point.latitude,
                          privacy_zone.point.longitude, privacy_zone.point.latitude)
        < privacy_zone.radius_meters

\* in_privacy_zone
in_privacy_zone(point, privacy_zone) ==
    great_circle_distance(point.longitude, point.latitude,
                          privacy_zone.point.longitude, privacy_zone.point.latitude)
        <= privacy_zone.radius_meters

\* in_any_privacy_zone
in_any_privacy_zone(point, zones) ==
    \E i \in 1..Len(zones) : in_privacy_zone(point, zones[i])

----------------------------------------------------------------------------
(* Serialization *)

\* children with the tag of child i set to tag
SetTag(children, i, tag) == [children EXCEPT ![i].tag = tag]

\* lines 96-97: time = trkpt.find('gpx:time', namespaces); time.tag = 'time'
RetagTime(trkpt) ==
    IF find(trkpt, "time") = 0
    THEN [ok |-> FALSE, trkpt |-> trkpt]
    ELSE [ok |-> TRUE,
          trkpt |-> [trkpt EXCEPT
                       !.children = SetTag(@, find(trkpt, "time"), "time")]]

\* lines 94-95: ele = trkpt.find('gpx:ele', namespaces); ele.tag = 'ele'
RetagEle(trkpt) ==
    IF find(trkpt, "ele") = 0
    THEN [ok |-> FALSE, trkpt |-> trkpt]
    ELSE RetagTime([trkpt EXCEPT
                      !.children = SetTag(@, find(trkpt, "ele"), "ele")])

\* remove_trkpt_namespaces: [ok, trkpt]; ok is FALSE when the call raises
\* AttributeError (find returned None), and trkpt is the element as the call
\* leaves it
remove_trkpt_namespaces(trkpt) == RetagEle([trkpt EXCEPT !.tag = "trkpt"])

\* Track.__init__
Track(date) == [date |-> date, trkpts |-> <<>>]

\* Track.add_trkpt
add_trkpt(track, trkpt) == [track EXCEPT !.trkpts = Append(@, trkpt)]

RECURSIVE NormalizeFrom(_, _)
RECURSIVE NormalizeWith(_, _, _)
\* the loop of Track.xml (lines 125-127) from trkpt i on: [ok, trkpts]; it
\* stops at the first trkpt on which remove_trkpt_namespaces raises
NormalizeFrom(trkpts, i) ==
    IF i > Len(trkpts) THEN [ok |-> TRUE, trkpts |-> trkpts]
    ELSE NormalizeWith(trkpts, i, remove_trkpt_namespaces(trkpts[i]))

\* one turn of that loop, r being what remove_trkpt_namespaces made of trkpt i
NormalizeWith(trkpts, i, r) ==
    IF r.ok
    THEN NormalizeFrom([trkpts EXCEPT ![i] = r.trkpt], i + 1)
    ELSE [ok |-> FALSE, trkpts |-> [trkpts EXCEPT ![i] = r.trkpt]]

\* the document Track.xml builds around the normalized trkpts n
XmlOf(track, n) ==
    [ok |-> n.ok,
     track |-> [track EXCEPT !.trkpts = n.trkpts],
     bytes |-> [name |-> str_datetime(track.date),
                trkseg |-> IF n.ok THEN n.trkpts ELSE <<>>]]

\* Track.xml: [ok, track, bytes]; track is the Track with its trkpts as the call
\* leaves them, bytes the document (the name of the trk and the trkpts of its
\* trkseg) when the call returns
xml(track) == XmlOf(track, NormalizeFrom(track.trkpts, 1))

----------------------------------------------------------------------------
(* Output paths *)

\* '{}{}{}{}.gpx'.format(file_dt.strftime('%Y%m%d'), sep, suffix, dedup_suffix)
FormatPath(file_dt, sep, suffix, dedup_suffix) ==
    strftime_Ymd(file_dt) \o sep \o suffix \o dedup_suffix \o ".gpx"

RECURSIVE UniqueFrom(_, _, _, _, _)
\* the while loop of get_unique_path with dedup_suffix = k (0 stands for '')
UniqueFrom(file_dt, sep, suffix, k, exists) ==
    IF FormatPath(file_dt, sep, suffix, IF k = 0 THEN "" ELSE Dec(k)) \in exists
    THEN UniqueFrom(file_dt, sep, suffix, k + 1, exists)
    ELSE FormatPath(file_dt, sep, suffix, IF k = 0 THEN "" ELSE Dec(k))

RECURSIVE UniquePasses(_, _, _, _, _)
\* the number of passes of the while loop of get_unique_path from
\* dedup_suffix = k on: one candidate path is formatted in each
UniquePasses(file_dt, sep, suffix, k, exists) ==
    IF FormatPath(file_dt, sep, suffix, IF k = 0 THEN "" ELSE Dec(k)) \in exists
    THEN 1 + UniquePasses(file_dt, sep, suffix, k + 1, exists)
    ELSE 1

RECURSIVE UniqueExistsCalls(_, _, _, _, _)
\* the number of calls of outfile_path.exists() in those passes: one when the
\* first if is taken (line 178), two when the second decides (lines 178, 182)
UniqueExistsCalls(file_dt, sep, suffix, k, exists) ==
    IF FormatPath(file_dt, sep, suffix, IF k = 0 THEN "" ELSE Dec(k)) \in exists
    THEN (IF k = 0 THEN 1 ELSE 2)
             + UniqueExistsCalls(file_dt, sep, suffix, k + 1, exists)
    ELSE 2

\* get_unique_path that numbers from 2 when the base path exists
get_unique_path_from_two(file_dt, suffix, exists) ==
    IF FormatPath(file_dt, IF Len(suffix) > 0 THEN "-" ELSE "", suffix, "") \in exists
    THEN UniqueFrom(file_dt, IF Len(suffix) > 0 THEN "-" ELSE "", suffix, 2, exists)
    ELSE FormatPath(file_dt, IF Len(suffix) > 0 THEN "-" ELSE "", suffix, "")

\* get_unique_path that stops at the first number, whatever exists
get_unique_path_once(file_dt, suffix, exists) ==
    IF FormatPath(file_dt, IF Len(suffix) > 0 THEN "-" ELSE "", suffix, "") \in exists
    THEN FormatPath(file_dt, IF Len(suffix) > 0 THEN "-" ELSE "", suffix, "1")
    ELSE FormatPath(file_dt, IF Len(suffix) > 0 THEN "-" ELSE "", suffix, "")

\* get_unique_path without the loop: the base path, whatever exists
get_unique_path_base(file_dt, suffix, exists) ==
    FormatPath(file_dt, IF Len(suffix) > 0 THEN "-" ELSE "", suffix, "")

\* get_unique_path, with the set of the paths that exist
get_unique_path(file_dt, suffix, exists) ==
    UniqueFrom(file_dt, IF Len(suffix) > 0 THEN "-" ELSE "", suffix, 0, exists)

\* the passes of the loop of a call of get_unique_path
get_unique_path_passes(file_dt, suffix, exists) ==
    UniquePasses(file_dt, IF Len(suffix) > 0 THEN "-" ELSE "", suffix, 0, exists)

\* the calls of exists() of a call of get_unique_path
get_unique_path_exists_calls(file_dt, suffix, exists) ==
    UniqueExistsCalls(file_dt, IF Len(suffix) > 0 THEN "-" ELSE "", suffix, 0, exists)

\* datetime(self.date.year, self.date.month, self.date.day)
MidnightOf(date) == [day |-> date.day, sec |-> 0]

\* line 135: outfile_path.write_bytes(self.xml()), x being what xml() gave
WriteOf(outfile_path, x) ==
    [ok |-> x.ok, track |-> x.track, path |-> outfile_path, date |-> x.track.date,
     bytes |-> x.bytes]

\* Track.write: [ok, track, path, date, bytes]; nothing is written when xml raises
write(track, suffix, exists) ==
    WriteOf(get_unique_path(MidnightOf(track.date), suffix, exists), xml(track))

----------------------------------------------------------------------------
(* Inputs *)

\* <time> texts: 2019-04-06T23:30:00Z and the times 20 minutes, 60 minutes,
\* 60 minutes and a second, and 5 hours after it
Ta == <<2019, 4, 6, 23, 30, 0>>
Tb == <<2019, 4, 6, 23, 50, 0>>
Tc == <<2019, 4, 7, 0, 30, 0>>
Td == <<2019, 4, 7, 0, 30, 1>>
Te == <<2019, 4, 7, 4, 30, 0>>

\* a <time> text that does not match the format ('2019-04-06')
BadText == <<2019, 4, 6>>

EleChild == Elem(QTag("ele"), <<120>>)

TimeChild(text) == Elem(QTag("time"), text)

\* the trkpts a document of the main loop is made of
Pool ==
    { Trkpt(0, <<EleChild, TimeChild(t)>>) : t \in {Ta, Tb, Tc, Td, Te} }
    \cup { Trkpt(1000, <<EleChild, TimeChild(Tb)>>),
           Trkpt(1001, <<EleChild, TimeChild(Tb)>>),
           Trkpt(0, <<TimeChild(Tb)>>),
           Trkpt(0, <<EleChild>>),
           Trkpt(0, <<EleChild, TimeChild(BadText)>>),
           Trkpt(1001, <<EleChild, TimeChild(BadText)>>) }

\* the privacy zone lists of a run: none, or one zone that holds no point of
\* the pool followed by one whose border passes through lat 1001
ZoneChoices ==
    { <<>>,
      << PrivacyZone("work", 100, 2000), PrivacyZone("home", 499, 1500) >> }

SuffixChoices == {"", "trip"}

EpochChoices == {0, 1}

\* the sets of paths that exist before a run
PreexistingChoices ==
    { {},
      {"20190406.gpx", "20190406-trip.gpx", "20381120.gpx", "20381120-trip.gpx"},
      {"20190406.gpx", "201904061.gpx", "20190406-trip.gpx", "20190406-trip1.gpx",
       "20381120.gpx", "203811201.gpx", "20381120-trip.gpx", "20381120-trip1.gpx"} }

----------------------------------------------------------------------------
(* main *)

Init ==
    /\ outfile_suffix \in SuffixChoices
    /\ privacy_zones \in ZoneChoices
    /\ epoch_offset \in EpochChoices
    /\ preexisting \in PreexistingChoices
    /\ files = preexisting
    /\ doc = <<>>
    /\ prev_trkpt = <<>>
    /\ current_track = <<>>
    /\ written = <<>>
    /\ branch = "start"
    /\ pc = "loop"
    /\ error = ""
    /\ subject = <<>>
    /\ results = <<>>

\* an exception that is caught and passed over: the loop goes on
RaiseSwallowed(exc, br) ==
    /\ pc' = "loop"
    /\ error' = ""
    /\ branch' = br

\* the run ends in an uncaught exception
Raise(exc, br) ==
    /\ pc' = "error"
    /\ error' = exc
    /\ branch' = br

\* what a write that returned leaves behind: the path, the date of the Track
\* and the bytes of the file
WriteRecord(w) == [path |-> w.path, date |-> w.date, bytes |-> w.bytes]

\* the effect of a call of Track.write that gave w: the Track as the call leaves
\* it, and the file and the record of the write when it returned
Wrote(w) ==
    /\ current_track' = <<w.track>>
    /\ files' = IF w.ok THEN files \cup {w.path} ELSE files
    /\ written' = IF w.ok
                  THEN Append(written, WriteRecord(w))
                  ELSE written

\* lines 260-266: a new Track, dated by the corrected time of trkpt, holds trkpt
OpenTrack(trkpt, br) ==
    /\ current_track' =
           << add_trkpt(Track(offset_datetime(trkpt_datetime(trkpt), epoch_offset)),
                        trkpt) >>
    /\ prev_trkpt' = <<trkpt>>
    /\ branch' = br
    /\ UNCHANGED <<pc, error>>

\* lines 257-266 with the write of the closed track left out
CloseAndOpenDeferred(w, trkpt, br) ==
    OpenTrack(trkpt, br) /\ UNCHANGED <<files, written>>

\* lines 257-266 when current_track is not None and its write gave w
CloseAndOpen(w, trkpt, br) ==
    IF w.ok
    THEN /\ files' = files \cup {w.path}
         /\ written' = Append(written, WriteRecord(w))
         /\ OpenTrack(trkpt, br)
    ELSE /\ Raise("AttributeError", br)
         /\ Wrote(w)
         /\ UNCHANGED prev_trkpt

\* lines 256-266 for a trkpt that starts a new track
StartTrack(trkpt, br) ==
    IF current_track = <<>>
    THEN OpenTrack(trkpt, br) /\ UNCHANGED <<files, written>>
    ELSE CloseAndOpen(write(current_track[1], outfile_suffix, files), trkpt, br)

\* a continue that also forgets the previous trkpt
SkipForget(br) ==
    /\ branch' = br
    /\ prev_trkpt' = <<>>
    /\ UNCHANGED <<files, current_track, written, pc, error>>

\* the continue of lines 251 and 254: the trkpt is passed over
Skip(br) ==
    /\ branch' = br
    /\ UNCHANGED <<files, prev_trkpt, current_track, written, pc, error>>

\* one iteration of the loop of main (lines 249-266) on the next trkpt of the
\* document
LoopBody(trkpt) ==
    /\ pc = "loop"
    /\ doc' = Append(doc, trkpt)
    /\ UNCHANGED <<outfile_suffix, privacy_zones, epoch_offset, preexisting,
                   subject, results>>
    /\ IF ~trkpt_has_time(trkpt)
       THEN Skip("no_time")
       ELSE IF in_any_privacy_zone(trkpt_to_point(trkpt), privacy_zones)
       THEN Skip("privacy")
       ELSE IF ~TimeParses(trkpt)
       THEN /\ Raise("ValueError", "bad_time")
            /\ UNCHANGED <<files, prev_trkpt, current_track, written>>
       ELSE IF prev_trkpt = <<>>
       THEN StartTrack(trkpt, "first")
       ELSE IF should_separate(prev_trkpt[1], trkpt)
       THEN StartTrack(trkpt, "separate")
       ELSE /\ current_track' = << add_trkpt(current_track[1], trkpt) >>
            /\ prev_trkpt' = <<trkpt>>
            /\ branch' = "append"
            /\ UNCHANGED <<files, written, pc, error>>

\* line 268 when current_track is not None and its write gave w
CloseAtEnd(w) ==
    /\ Wrote(w)
    /\ IF w.ok
       THEN pc' = "done" /\ error' = "" /\ branch' = "end"
       ELSE Raise("AttributeError", "end")

\* the document ends: line 268, current_track.write(outfile_suffix)
Finish ==
    /\ pc = "loop"
    /\ UNCHANGED <<outfile_suffix, privacy_zones, epoch_offset, preexisting,
                   doc, prev_trkpt, subject, results>>
    /\ IF current_track = <<>>
       THEN /\ Raise("AttributeError", "end")
            /\ UNCHANGED <<files, current_track, written>>
       ELSE CloseAtEnd(write(current_track[1], outfile_suffix, files))

\* the loop of main reads the next trkpt of a document of at most MaxPts trkpts
Step(trkpt) == Len(doc) < MaxPts /\ LoopBody(trkpt)

Next ==
    \/ \E trkpt \in Pool : Step(trkpt)
    \/ Finish

Spec == Init /\ [][Next]_vars

----------------------------------------------------------------------------
(* Runs of main on longer documents that differ in their timestamps *)

Tf == <<2019, 4, 7, 4, 50, 0>>

\* the trkpts of these documents: one place and six times, and one far point
ScenarioPool ==
    { Trkpt(0, <<EleChild, TimeChild(t)>>) : t \in {Ta, Tb, Tc, Td, Te, Tf} }
    \cup { Trkpt(1001, <<EleChild, TimeChild(Tb)>>) }

\* main without suffix, privacy zones or epoch offset, in an empty directory
InitScenario ==
    /\ outfile_suffix = ""
    /\ privacy_zones = <<>>
    /\ epoch_offset = 0
    /\ preexisting = {}
    /\ files = {}
    /\ doc = <<>>
    /\ prev_trkpt = <<>>
    /\ current_track = <<>>
    /\ written = <<>>
    /\ branch = "start"
    /\ pc = "loop"
    /\ error = ""
    /\ subject = <<>>
    /\ results = <<>>

\* the loop of main reads the next trkpt of a document of at most
\* MaxScenarioPts trkpts
ScenarioStep(trkpt) == Len(doc) < MaxScenarioPts /\ LoopBody(trkpt)

NextScenario ==
    \/ \E trkpt \in ScenarioPool : ScenarioStep(trkpt)
    \/ Finish

SpecScenario == InitScenario /\ [][NextScenario]_vars

----------------------------------------------------------------------------
(* remove_trkpt_namespaces and Track.xml called again on the same Track *)

\* the trkpts of the Track under test
NormPool ==
    { Trkpt(lat, children) :
        lat \in {0, 1001},
        children \in { <<EleChild, TimeChild(Ta)>>, <<EleChild, TimeChild(Tb)>>,
                       <<TimeChild(Ta), EleChild>>, <<TimeChild(Ta)>>, <<EleChild>> } }

\* the Tracks under test: 1..MaxTrackPts trkpts of the pool
Subjects ==
    UNION { { [date |-> strptime(Ta), trkpts |-> trkpts] :
                trkpts \in [1..n -> NormPool] } : n \in 1..MaxTrackPts }

InitNorm ==
    /\ subject \in { <<track>> : track \in Subjects }
    /\ results = <<>>
    /\ outfile_suffix = ""
    /\ privacy_zones = <<>>
    /\ epoch_offset = 0
    /\ preexisting = {}
    /\ files = {}
    /\ doc = <<>>
    /\ prev_trkpt = <<>>
    /\ current_track = <<>>
    /\ written = <<>>
    /\ branch = "start"
    /\ pc = "loop"
    /\ error = ""

\* a call remove_trkpt_namespaces(trkpt) on the first trkpt of the Track gave r
Renormalized(r) ==
    /\ subject' = << [subject[1] EXCEPT !.trkpts[1] = r.trkpt] >>
    /\ results' = Append(results, [call |-> "remove_trkpt_namespaces", ok |-> r.ok,
                                   name |-> "", trkpts |-> <<r.trkpt>>])

\* remove_trkpt_namespaces is called on the first trkpt of the Track
Renormalize ==
    /\ Len(results) < MaxCalls
    /\ Renormalized(remove_trkpt_namespaces(subject[1].trkpts[1]))
    /\ UNCHANGED mainVars

\* a call xml() on the Track gave x
Reserialized(x) ==
    /\ subject' = <<x.track>>
    /\ results' = Append(results, [call |-> "xml", ok |-> x.ok,
                                   name |-> x.bytes.name, trkpts |-> x.bytes.trkseg])

\* Track.xml is called on the Track
Reserialize ==
    /\ Len(results) < MaxCalls
    /\ Reserialized(xml(subject[1]))
    /\ UNCHANGED mainVars

NextNorm ==
    \/ Renormalize
    \/ Reserialize

SpecNorm == InitNorm /\ [][NextNorm]_vars

----------------------------------------------------------------------------
(* offset_datetime called on its own, with every --epoch_offset from -2 to 2 *)

\* the texts of the timestamps that are shifted: the pool's, the first day of
\* GPS time, and moments next to a leap day and to the end of a year
OffsetTexts ==
    { Ta, Tb, Tc, Td, Te, Tf,
      <<1980, 1, 6, 0, 0, 0>>, <<1999, 12, 31, 23, 59, 59>>,
      <<2000, 2, 29, 12, 0, 0>>, <<2000, 3, 1, 0, 0, 0>>,
      <<2024, 2, 29, 0, 0, 0>>, <<2024, 12, 31, 23, 59, 59>> }

\* the values of --epoch_offset of these calls
OffsetEpochs == -2..2

InitOffset ==
    /\ subject \in { <<strptime(text)>> : text \in OffsetTexts }
    /\ epoch_offset \in OffsetEpochs
    /\ results = <<>>
    /\ outfile_suffix = ""
    /\ privacy_zones = <<>>
    /\ preexisting = {}
    /\ files = {}
    /\ doc = <<>>
    /\ prev_trkpt = <<>>
    /\ current_track = <<>>
    /\ written = <<>>
    /\ branch = "start"
    /\ pc = "loop"
    /\ error = ""

\* a call offset_datetime(dt, epoch_offset) returned value
Shifted(dt, value) ==
    /\ subject' = <<value>>
    /\ results' = Append(results, [call |-> "offset_datetime", dt |-> dt,
                                   value |-> value])

\* offset_datetime is called on the datetime, and again on what it returned
Shift ==
    /\ Len(results) < MaxCalls
    /\ Shifted(subject[1], offset_datetime(subject[1], epoch_offset))
    /\ UNCHANGED mainVars

NextOffset == Shift

SpecOffset == InitOffset /\ [][NextOffset]_vars

----------------------------------------------------------------------------
(* get_unique_path called on its own, in directories of every content *)

\* the names a directory may hold before the calls: base and numbered names
\* of the dates and suffixes of the calls, with and without gaps in the
\* numbering, and a name of another date
AllocNames ==
    { "20190406.gpx", "201904061.gpx", "201904062.gpx",
      "20190406-trip.gpx", "20190406-trip1.gpx", "20190406-trip3.gpx",
      "20190407.gpx" }

\* the arguments of the first call: file_dt, suffix, and the paths that exist
AllocArgs ==
    { [file_dt |-> MidnightOf(strptime(text)), suffix |-> suffix, exists |-> exists] :
        text \in {Ta, Tc}, suffix \in SuffixChoices, exists \in SUBSET AllocNames }

InitAlloc ==
    /\ subject \in { <<args>> : args \in AllocArgs }
    /\ results = <<>>
    /\ outfile_suffix = ""
    /\ privacy_zones = <<>>
    /\ epoch_offset = 0
    /\ preexisting = {}
    /\ files = {}
    /\ doc = <<>>
    /\ prev_trkpt = <<>>
    /\ current_track = <<>>
    /\ written = <<>>
    /\ branch = "start"
    /\ pc = "loop"
    /\ error = ""

\* a call get_unique_path(file_dt, suffix) in a directory holding exists
\* returned path after passes passes of its loop and exists_calls calls of
\* exists(); write_bytes (line 135) then created the path
Allocated(args, path, passes, exists_calls) ==
    /\ subject' = << [args EXCEPT !.exists = args.exists \cup {path}] >>
    /\ results' = Append(results, [call |-> "get_unique_path",
                                   file_dt |-> args.file_dt, suffix |-> args.suffix,
                                   exists |-> args.exists, path |-> path,
                                   passes |-> passes, exists_calls |-> exists_calls])

\* lines 133-135 of Track.write: get_unique_path picks the path of a file and
\* the file is created
Allocate ==
    /\ Len(results) < MaxCalls
    /\ Allocated(subject[1],
                 get_unique_path(subject[1].file_dt, subject[1].suffix,
                                 subject[1].exists),
                 get_unique_path_passes(subject[1].file_dt, subject[1].suffix,
                                        subject[1].exists),
                 get_unique_path_exists_calls(subject[1].file_dt, subject[1].suffix,
                                              subject[1].exists))
    /\ UNCHANGED mainVars

NextAlloc == Allocate

SpecAlloc == InitAlloc /\ [][NextAlloc]_vars

----------------------------------------------------------------------------
(* Vocabulary of the properties *)

Last(seq) == seq[Len(seq)]

Front(seq) == SubSeq(seq, 1, Len(seq) - 1)

Abs(n) == IF n < 0 THEN -n ELSE n

\* the local name of a tag, qualified or not
LocalName(tag) ==
    IF tag \in {QTag("trkpt"), "trkpt"} THEN "trkpt"
    ELSE IF tag \in {QTag("ele"), "ele"} THEN "ele"
    ELSE IF tag \in {QTag("time"), "time"} THEN "time"
    ELSE tag

\* what a trkpt says, whatever its tags are qualified with: position, and the
\* name and text of each child in order
Payload(trkpt) ==
    [lat |-> trkpt.lat, lon |-> trkpt.lon,
     children |-> [i \in 1..Len(trkpt.children) |->
                      [name |-> LocalName(trkpt.children[i].tag),
                       text |-> trkpt.children[i].text]]]

Payloads(trkpts) == [i \in 1..Len(trkpts) |-> Payload(trkpts[i])]

\* the texts of the children of a trkpt that are named name
TextsOf(trkpt, name) ==
    { trkpt.children[i].text : i \in { j \in 1..Len(trkpt.children) :
                                        LocalName(trkpt.children[j].tag) = name } }

HasTimestamp(trkpt) == TextsOf(trkpt, "time") # {}

HasElevation(trkpt) == TextsOf(trkpt, "ele") # {}

\* the text of the timestamp of a trkpt that has one
Timestamp(trkpt) == CHOOSE text \in TextsOf(trkpt, "time") : TRUE

\* a timestamp that is present and is not YYYY-MM-DDTHH:MM:SSZ
Malformed(trkpt) == HasTimestamp(trkpt) /\ Len(Timestamp(trkpt)) # 6

\* a point lies in a zone: its distance to the centre is at most the radius
InZone(trkpt, zone) == Abs(trkpt.lat - zone.point.latitude) <= zone.radius_meters

\* a point is excluded: it lies in at least one zone of the run
Excluded(trkpt) == \E i \in 1..Len(privacy_zones) : InZone(trkpt, privacy_zones[i])

\* a usable point: timestamped and not redacted
Usable(trkpt) == HasTimestamp(trkpt) /\ ~Excluded(trkpt)

\* the filtered sequence of the points read so far
Filtered(trkpts) == SelectSeq(trkpts, Usable)

RECURSIVE EmittedUpTo(_)
\* the points of the first k written sessions, concatenated in emission order
EmittedUpTo(k) ==
    IF k = 0 THEN <<>> ELSE EmittedUpTo(k - 1) \o written[k].bytes.trkseg

Emitted == EmittedUpTo(Len(written))

RECURSIVE TextBefore(_, _, _)
\* timestamp text a is strictly earlier than text b, field by field from i on
TextBefore(a, b, i) ==
    IF i > 6 THEN FALSE
    ELSE IF a[i] # b[i] THEN a[i] < b[i]
    ELSE TextBefore(a, b, i + 1)

\* the last action was an iteration of the loop, on Last(doc)
Iterated == branch \notin {"start", "end"}

\* the last iteration compared a usable, well-formed point with the retained
\* point before it
Compared ==
    /\ Iterated
    /\ Usable(Last(doc))
    /\ ~Malformed(Last(doc))
    /\ Filtered(Front(doc)) # <<>>

\* the two points of that comparison
PointBefore == Last(Filtered(Front(doc)))

PointNow == Last(doc)

\* the second point of the comparison has the strictly earlier timestamp
Regression == TextBefore(Timestamp(PointNow), Timestamp(PointBefore), 1)

\* seconds from the timestamp of the first point to that of the second
GapSeconds == DtDiff(strptime(Timestamp(PointNow)), strptime(Timestamp(PointBefore)))

\* metres between the two points
GapMeters == Abs(PointNow.lat - PointBefore.lat)

\* the run has ended, normally or in an exception
Ended == pc # "loop"

\* no point read so far has a malformed timestamp
WellFormedInput == \A i \in 1..Len(doc) : ~Malformed(doc[i])

----------------------------------------------------------------------------
(* Properties *)

\* C1. Monotonic close: when the run has ended on an input without malformed
\* timestamps, the points of the written sessions, concatenated in emission
\* order, are exactly the filtered input in its original order.
C1_MonotonicClose ==
    (Ended /\ WellFormedInput) => Payloads(Emitted) = Payloads(Filtered(doc))

\* C2. No collision: the paths of the files written by a run are pairwise
\* distinct, none of them existed before the run, and every file that existed
\* before the run is still there beside the written ones.
C2_NoCollision ==
    /\ \A i, j \in 1..Len(written) : i # j => written[i].path # written[j].path
    /\ \A i \in 1..Len(written) : written[i].path \notin preexisting
    /\ files = preexisting \cup { written[i].path : i \in 1..Len(written) }

\* three sessions of one anchor date were written beside a file of that date
\* that existed before the run
C2_Witness ==
    /\ Len(written) = 3
    /\ \A i \in 1..3 : DateOf(written[i].date) = DateOf(written[1].date)
    /\ FormatPath(written[1].date, IF Len(outfile_suffix) > 0 THEN "-" ELSE "",
                  outfile_suffix, "") \in preexisting

\* the corrected timestamp the property speaks of: t + e * 1024 weeks (the
\* program takes no UTC offset)
Corrected(dt) == [day |-> dt.day + 7 * 1024 * epoch_offset, sec |-> dt.sec]

\* the place in the filtered input of the first point of written session s
FirstOf(s) == Len(EmittedUpTo(s - 1)) + 1

\* C3(a), the anchor date: the date of every written session is the date of
\* the corrected timestamp of its first point.
AnchorDateCorrected ==
    pc = "done" =>
        \A s \in 1..Len(written) :
            DateOf(written[s].date) =
                DateOf(Corrected(strptime(Timestamp(Filtered(doc)[FirstOf(s)]))))

\* C3. Time correction: in a run that has completed, the timestamp written
\* for every point is the corrected timestamp of that point of the input, and
\* the anchor date of every session is the date of the corrected timestamp of
\* its first point.
C3_TimeCorrection ==
    /\ AnchorDateCorrected
    /\ pc = "done" =>
           \A k \in 1..Len(Emitted) :
               strptime(Timestamp(Emitted[k])) =
                   Corrected(strptime(Timestamp(Filtered(doc)[k])))

\* C4. Empty input: a run that ends on an input without usable points ends in
\* EmptyInputError and has written nothing.
C4_EmptyInput ==
    (Ended /\ WellFormedInput /\ Filtered(doc) = <<>>) =>
        (error = "EmptyInputError" /\ written = <<>>)

\* what the run does on such an input: nothing is written, and the exception
\* is the AttributeError of line 268
EmptyInputOutcome ==
    (Ended /\ WellFormedInput /\ Filtered(doc) = <<>>) =>
        (pc = "error" /\ error = "AttributeError" /\ written = <<>>)

C8_PrivacyExclusion ==
    /\ (Iterated /\ HasTimestamp(Last(doc))) =>
           (branch = "privacy" <=> Excluded(Last(doc)))
    /\ privacy_zones = <<>> => branch # "privacy"
    /\ \A k \in 1..Len(Emitted) : ~Excluded(Emitted[k])
    /\ current_track # <<>> =>
           \A k \in 1..Len(current_track[1].trkpts) :
               ~Excluded(current_track[1].trkpts[k])

\* a point exactly on the border of a zone was skipped after a point one
\* metre outside that border was taken into the open session
C8_Witness ==
    /\ branch = "privacy"
    /\ current_track # <<>>
    /\ \E i \in 1..Len(privacy_zones) :
           /\ Abs(Last(doc).lat - privacy_zones[i].point.latitude)
                  = privacy_zones[i].radius_meters
           /\ Abs(Last(current_track[1].trkpts).lat - privacy_zones[i].point.latitude)
                  = privacy_zones[i].radius_meters + 1

\* C10. Elevation is optional: no write fails, so the only AttributeError is
\* that of an input without usable points, and a session written at the end of
\* the run holds every point of the session, those without elevation
\* included, in order.
C10_ElevationOptional ==
    /\ error = "AttributeError" => current_track = <<>>
    /\ (branch = "end" /\ current_track # <<>>) =>
           /\ pc = "done"
           /\ Payloads(Last(written).bytes.trkseg) = Payloads(current_track[1].trkpts)

\* the five points of the scenario: one place, 23:30, 23:50 and 00:30, and,
\* four hours later, 04:30 and 04:50
Scenario == [i \in 1..5 |-> Trkpt(0, <<EleChild, TimeChild(<<Ta, Tb, Tc, Te, Tf>>[i])>>)]

\* the thresholds the property configures: 60 minutes and 6 hours, in seconds
ConfiguredThresholds == {3600, 21600}

C9_IdempotentNormalization ==
    \A i, j \in 1..Len(results) :
        (i < j /\ results[i].call = results[j].call /\ results[i].ok) =>
            (results[j].ok /\ results[j] = results[i])

\* what the second call does: after a successful call of either, every later
\* call of either raises AttributeError and leaves the trkpts as they were
NormalizationOnce ==
    \A i, j \in 1..Len(results) : (i < j /\ results[i].ok) => ~results[j].ok

\* the timestamps of consecutive points of a sequence of trkpts never go back
NonDecreasing(trkpts) ==
    \A i \in 1..(Len(trkpts) - 1) :
        ~TextBefore(Timestamp(trkpts[i + 1]), Timestamp(trkpts[i]), 1)

\* the points of the open session, none when no session is open
OpenPoints == IF current_track = <<>> THEN <<>> ELSE current_track[1].trkpts

\* C11. Session order invariant: in every state of every run, the open session
\* and every written session hold their points in non-decreasing timestamp
\* order, whatever the input, regressions of the clock included.
C11_SessionOrder ==
    /\ NonDecreasing(OpenPoints)
    /\ \A s \in 1..Len(written) : NonDecreasing(written[s].bytes.trkseg)

\* a point earlier than the one before it arrived after a session of two
\* points: that session was written with its two points and the earlier point
\* is alone in the open one
C11_Witness ==
    /\ Compared
    /\ Regression
    /\ pc = "loop"
    /\ Len(written) >= 1
    /\ Len(Last(written).bytes.trkseg) = 2
    /\ Len(OpenPoints) = 1

\* the segmentation criteria between two consecutive retained points: the
\* later one is earlier in time, or more than 60 minutes later, or more than
\* 1000 metres away
Boundary(p1, p2) ==
    \/ TextBefore(Timestamp(p2), Timestamp(p1), 1)
    \/ DtDiff(strptime(Timestamp(p2)), strptime(Timestamp(p1))) > 3600
    \/ Abs(p2.lat - p1.lat) > 1000

\* the positions, in a sequence of retained points, at which a session starts
Starts(pts) == { k \in 1..Len(pts) : k = 1 \/ Boundary(pts[k - 1], pts[k]) }

\* the position at which the s-th session of pts starts
NthStart(pts, s) ==
    CHOOSE k \in Starts(pts) : Cardinality({ j \in Starts(pts) : j <= k }) = s

\* the points of the s-th session of pts
SessionPoints(pts, s) ==
    SubSeq(pts, NthStart(pts, s),
           IF s < Cardinality(Starts(pts)) THEN NthStart(pts, s + 1) - 1
           ELSE Len(pts))

\* the first n sessions of pts are the written sessions, in order, each
\* written once
WrittenAre(pts, n) ==
    /\ Len(written) = n
    /\ \A s \in 1..n :
           Payloads(written[s].bytes.trkseg) = Payloads(SessionPoints(pts, s))

\* C12. Each session is written exactly once and never reopened: while the
\* loop runs, every session of the retained input but the open one has been
\* written, with the points it had when the first point of the next session
\* arrived; when the run has ended on an input without malformed timestamps,
\* every session has been written, the last one included; every written
\* session holds at least one point.
C12_WrittenOnce ==
    /\ \A s \in 1..Len(written) : written[s].bytes.trkseg # <<>>
    /\ (pc = "loop" /\ Filtered(doc) # <<>>) =>
           WrittenAre(Filtered(doc), Cardinality(Starts(Filtered(doc))) - 1)
    /\ (Ended /\ WellFormedInput /\ Filtered(doc) # <<>>) =>
           WrittenAre(Filtered(doc), Cardinality(Starts(Filtered(doc))))

\* what holds of the written sessions in every run: a step never changes or
\* removes a written session, it writes at most one more, and only at a
\* session boundary or at the end of the document; no written session is empty
WrittenIsFinal ==
    [][/\ Len(written') \in {Len(written), Len(written) + 1}
       /\ SubSeq(written', 1, Len(written)) = written
       /\ Len(written') > Len(written) =>
              /\ branch' \in {"first", "separate", "end"}
              /\ Payloads(Last(written').bytes.trkseg) = Payloads(OpenPoints)
              /\ OpenPoints # <<>>]_vars

\* the seconds from datetime a to datetime b
SecondsFrom(a, b) == (b.day - a.day) * 86400 + (b.sec - a.sec)

\* the UTC offsets, in hours, the time correction is stated for
UtcOffsets == {-12, 0, 12}

KnownShifts ==
    { << Ta, -2, "1980-01-05 23:30:00" >>, << Ta, -1, "1999-08-21 23:30:00" >>,
      << Ta, 1, "2038-11-20 23:30:00" >>, << Ta, 2, "2058-07-06 23:30:00" >>,
      << <<2000, 2, 29, 12, 0, 0>>, -2, "1960-11-29 12:00:00" >>,
      << <<2000, 2, 29, 12, 0, 0>>, 1, "2019-10-15 12:00:00" >>,
      << <<1999, 12, 31, 23, 59, 59>>, -1, "1980-05-16 23:59:59" >>,
      << <<1999, 12, 31, 23, 59, 59>>, 2, "2039-04-01 23:59:59" >>,
      << <<1980, 1, 6, 0, 0, 0>>, 2, "2019-04-07 00:00:00" >>,
      << <<2024, 2, 29, 0, 0, 0>>, -1, "2004-07-15 00:00:00" >>,
      << <<2024, 2, 29, 0, 0, 0>>, 2, "2063-05-31 00:00:00" >> }

C14_TimelessSkipped ==
    [][Len(doc') = Len(doc) + 1 =>
          /\ ~HasTimestamp(Last(doc')) =>
                 /\ branch' = "no_time"
                 /\ UNCHANGED <<prev_trkpt, current_track, written, files, pc, error>>
          /\ (Usable(Last(doc')) /\ ~Malformed(Last(doc')) /\ Filtered(doc) # <<>>) =>
                 /\ prev_trkpt = <<Last(Filtered(doc))>>
                 /\ branch' = "separate" <=> Boundary(Last(Filtered(doc)), Last(doc'))
                 /\ branch' = "append" <=> ~Boundary(Last(Filtered(doc)), Last(doc'))]_vars

\* a point without a timestamp arrived between two points 20 minutes apart:
\* the two are in one open session and the time-less point is in none
C14_Witness ==
    /\ Len(doc) = 3
    /\ Usable(doc[1]) /\ ~HasTimestamp(doc[2]) /\ Usable(doc[3])
    /\ branch = "append"
    /\ OpenPoints = <<doc[1], doc[3]>>
    /\ prev_trkpt = <<doc[3]>>
    /\ written = <<>>

\* the name of the k-th candidate of a call r of get_unique_path: the anchor
\* date as YYYYMMDD, '-' and the suffix when there is one, the number k when
\* k >= 1, and '.gpx'
Candidate(r, k) ==
    strftime_Ymd(r.file_dt)
        \o (IF r.suffix = "" THEN "" ELSE "-" \o r.suffix)
        \o (IF k = 0 THEN "" ELSE Dec(k))
        \o ".gpx"

\* names as they are written: <<(Y, m, d), suffix, k, name>>
KnownNames ==
    { << <<2019, 4, 6>>, "", 0, "20190406.gpx" >>,
      << <<2019, 4, 6>>, "", 1, "201904061.gpx" >>,
      << <<2019, 4, 6>>, "", 3, "201904063.gpx" >>,
      << <<2019, 4, 6>>, "trip", 0, "20190406-trip.gpx" >>,
      << <<2019, 4, 6>>, "trip", 2, "20190406-trip2.gpx" >>,
      << <<2019, 4, 7>>, "", 0, "20190407.gpx" >>,
      << <<2019, 4, 7>>, "trip", 1, "20190407-trip1.gpx" >> }

\* the least k >= 0 whose candidate does not exist is k
LeastFree(r, k) ==
    /\ Candidate(r, k) \notin r.exists
    /\ \A j \in 0..(k - 1) : Candidate(r, j) \in r.exists

\* C15. get_unique_path returns the base path, YYYYMMDD of the anchor date
\* followed by '-' and the suffix only when the suffix is not empty, when that
\* path does not exist, and otherwise the base name followed by the least
\* k >= 1 for which no file exists: the path is this function of the anchor
\* date, the suffix and the set of existing files, and of nothing else.
C15_UniquePath ==
    \A i \in 1..Len(results) :
        /\ Candidate(results[i], 0) \notin results[i].exists =>
               results[i].path = Candidate(results[i], 0)
        /\ Candidate(results[i], 0) \in results[i].exists =>
               \E k \in 1..Cardinality(results[i].exists) :
                   /\ LeastFree(results[i], k)
                   /\ results[i].path = Candidate(results[i], k)
        /\ \A n \in KnownNames :
               (/\ results[i].file_dt = MidnightOf(strptime(n[1] \o <<0, 0, 0>>))
                /\ results[i].suffix = n[2]
                /\ LeastFree(results[i], n[3])) => results[i].path = n[4]

\* in a directory that holds 20190406-trip.gpx, 20190406-trip1.gpx and
\* 20190406-trip3.gpx, the call for 2019-04-06 and the suffix trip returned
\* 20190406-trip2.gpx, the least free number, and not 4
C15_Witness ==
    /\ Len(results) = 1
    /\ results[1].call = "get_unique_path"
    /\ results[1].suffix = "trip"
    /\ {"20190406-trip.gpx", "20190406-trip1.gpx", "20190406-trip3.gpx"}
           \subseteq results[1].exists
    /\ results[1].path = "20190406-trip2.gpx"

AllocationOf(session) ==
    [file_dt |-> MidnightOf(session.date), suffix |-> outfile_suffix, exists |-> files]

\* C16. Write-before-open ordering: a step that creates the object of the
\* next session while a session is open has written the file of the open
\* session, with the points it held, and the new session holds only the point
\* that started it; so whenever a session is written the files of all the
\* sessions written before it exist, and its path is the first candidate that
\* is none of them nor any other existing file.
C16_WriteBeforeOpen ==
    [][/\ (/\ Len(doc') = Len(doc) + 1
           /\ current_track # <<>>
           /\ pc' = "loop"
           /\ branch' \in {"first", "separate"}) =>
              /\ Len(written') = Len(written) + 1
              /\ Payloads(Last(written').bytes.trkseg) = Payloads(OpenPoints)
              /\ Last(written').path \in files'
              /\ OpenPoints' = <<Last(doc')>>
       /\ Len(written') = Len(written) + 1 =>
              /\ \A i \in 1..Len(written) : written[i].path \in files
              /\ Last(written').path \notin files
              /\ \E k \in 0..Cardinality(files) :
                     /\ LeastFree(AllocationOf(Last(written')), k)
                     /\ Last(written').path
                            = Candidate(AllocationOf(Last(written')), k)]_vars

\* two sessions of one anchor date were written, one after the other, under
\* different names, and the third session is open with its first point
C16_Witness ==
    /\ pc = "loop"
    /\ branch = "separate"
    /\ Len(written) = 2
    /\ DateOf(written[1].date) = DateOf(written[2].date)
    /\ written[1].path # written[2].path
    /\ {written[1].path, written[2].path} \subseteq files
    /\ OpenPoints = <<Last(doc)>>

\* the retained points read before the last step and the number of their
\* sessions
RetainedBefore == Filtered(doc)

SessionsBefore == Cardinality(Starts(RetainedBefore))

ExcludedMalformedSkipped ==
    (Iterated /\ Malformed(Last(doc)) /\ Excluded(Last(doc))) =>
        (branch = "privacy" /\ pc = "loop")

====
